---------------------------- MODULE Spec2Model ----------------------------
(***************************************************************************)
(* Model of spotify-import (src/src/main.rs): one run of main, which       *)
(* authenticates, collects the tags of the local tracks, builds one search *)
(* query per tag that has a title and an artist, resolves each query with  *)
(* one remote search, creates a playlist and adds the resolved tracks to   *)
(* it in chunks of 100.                                                    *)
(*                                                                         *)
(* Strings are sequences of one-character strings, so that format! is a    *)
(* real concatenation.  Option<T> is a sequence of length 0 (None) or 1    *)
(* (Some).  Every remote call is two steps: the request is appended to     *)
(* `requests` as pending, and a later step completes it with the outcome   *)
(* the remote service chooses.                                             *)
(***************************************************************************)
EXTENDS Integers, Sequences, FiniteSets, TLC

VARIABLES
    pc,         \* position of main: the await or statement it is at
    library,    \* the tags the directory yields (environment, fixed per run)
    tags,       \* main: let tags
    queries,    \* main: let queries
    qi,         \* get_track_ids: 1-based index of the next query of the for loop
    search_result, \* get_track_ids: let result, the reply to the last search
    track_ids,  \* get_track_ids: let mut track_ids / main: let track_ids
    playlist,   \* add_tracks_to_spotify: let playlist (Option)
    position,   \* add_tracks_to_spotify: let mut position
    rest,       \* add_tracks_to_spotify: what track_ids.chunks(100) has not yielded yet
    result,     \* main: let result, "none" until add_tracks_to_spotify returns
    log,        \* the log lines written so far
    requests    \* the remote requests issued so far, each with its status

vars == <<pc, library, tags, queries, qi, search_result, track_ids, playlist, position, rest,
          result, log, requests>>

----------------------------------------------------------------------------
(* Bounds of the model *)

MaxTags == 2
MaxItems == 2
MaxLen == 230
MaxMiss == 2

(* Program constants *)

ChunkSize == 100
PositionStep == 100

----------------------------------------------------------------------------
(* Values *)

None == <<>>
Some(v) == <<v>>
IsSome(o) == Len(o) = 1
Unwrap(o) == o[1]

Min(a, b) == IF a <= b THEN a ELSE b

Titles == {<<"a">>, <<"b">>}
Artists == {<<"x">>}
TrackIds == {1, 2}
PlaylistId == "playlist"

Options(S) == {None} \cup {Some(v) : v \in S}

Tags == [title : Options(Titles), artist : Options(Artists)]

SeqsUpTo(S, n) == UNION {[1..k -> S] : k \in 0..n}

(* What a search call can return: Err, Ok of a non-track result, or Ok of a
   page of tracks whose items each may or may not carry an id. *)
SearchResults ==
    {[tag |-> "Err", items |-> <<>>], [tag |-> "Other", items |-> <<>>]}
    \cup {[tag |-> "Tracks", items |-> it] : it \in SeqsUpTo(Options(TrackIds), MaxItems)}

NoResult == [tag |-> "None", items |-> <<>>]

Req(kind, text, items, pos) ==
    [kind |-> kind, text |-> text, items |-> items, position |-> pos, status |-> "pending"]

Line(level, fmt, text, num) ==
    [level |-> level, fmt |-> fmt, text |-> text, num |-> num]

Issue(r) == Append(requests, r)

Complete(status) ==
    [requests EXCEPT ![Len(requests)] = [@ EXCEPT !.status = status]]

----------------------------------------------------------------------------
(* impl TryFrom<Tag> for SearchQuery *)

Separator == <<" ", "-", " ">>

(* mutant: a tag with a title alone already makes a query *)
try_from_title_only(tag) ==
    IF IsSome(tag.title)
    THEN Some(Unwrap(tag.title) \o Separator
              \o (IF IsSome(tag.artist) THEN Unwrap(tag.artist) ELSE <<>>))
    ELSE None

try_from(tag) ==
    IF IsSome(tag.title) /\ IsSome(tag.artist)
    THEN Some(Unwrap(tag.title) \o Separator \o Unwrap(tag.artist))
    ELSE None

(* tags.into_iter().filter_map(|tag| SearchQuery::try_from(tag).ok()).collect() *)
RECURSIVE filter_map_try_from(_)
filter_map_try_from(ts) ==
    IF ts = <<>> THEN <<>>
    ELSE LET q == try_from(Head(ts))
         IN (IF IsSome(q) THEN <<Unwrap(q)>> ELSE <<>>) \o filter_map_try_from(Tail(ts))

(* mutant: the last item of the page instead of the first *)
first_track_id_last(res) ==
    IF res.tag = "Tracks" /\ res.items # <<>> THEN res.items[Len(res.items)] ELSE None

(* mutant: falls back to the first item of the page that carries an id *)
first_track_id_fallback(res) ==
    IF res.tag = "Tracks" /\ \E i \in 1..Len(res.items) : IsSome(res.items[i])
    THEN res.items[CHOOSE i \in 1..Len(res.items) :
                      /\ IsSome(res.items[i])
                      /\ \A j \in 1..(i - 1) : ~IsSome(res.items[j])]
    ELSE None

(* if let Ok(SearchResult::Tracks(track)) = result
   { track.items.first().and_then(|t| t.id.clone()) } *)
first_track_id(res) ==
    IF res.tag = "Tracks" /\ res.items # <<>> THEN res.items[1] ELSE None

(* mutant: every chunk loses its last item *)
next_chunk_short(s) == SubSeq(s, 1, Min(ChunkSize, Len(s)) - 1)

(* slice::chunks(100): the next chunk is the first min(100, len) items *)
next_chunk(s) == SubSeq(s, 1, Min(ChunkSize, Len(s)))
after_chunk(s) == SubSeq(s, Min(ChunkSize, Len(s)) + 1, Len(s))

----------------------------------------------------------------------------
(* Initial state: main is about to run on some directory *)

Init ==
    /\ pc = "start"
    /\ library \in SeqsUpTo(Tags, MaxTags)
    /\ tags = <<>>
    /\ queries = <<>>
    /\ qi = 1
    /\ search_result = NoResult
    /\ track_ids = <<>>
    /\ playlist = None
    /\ position = 0
    /\ rest = <<>>
    /\ result = "none"
    /\ log = <<>>
    /\ requests = <<>>

(* The state in which main calls add_tracks_to_spotify after a run over a
   library of m + n fully tagged tracks, of which the first m were not found
   and the other n resolved to the distinct ids 1..n. *)
FullTag == [title |-> Some(<<"a">>), artist |-> Some(<<"x">>)]
FullQuery == <<"a">> \o Separator \o <<"x">>
DoneReq(kind, text) == [Req(kind, text, <<>>, -1) EXCEPT !.status = "ok"]

ImportState(m, n) ==
    /\ pc = "current_user"
    /\ library = [i \in 1..(m + n) |-> FullTag]
    /\ tags = library
    /\ queries = [i \in 1..(m + n) |-> FullQuery]
    /\ qi = m + n + 1
    /\ search_result = IF n > 0 THEN [tag |-> "Tracks", items |-> <<Some(n)>>]
                       ELSE IF m > 0 THEN [tag |-> "Tracks", items |-> <<>>]
                       ELSE NoResult
    /\ track_ids = [i \in 1..n |-> i]
    /\ playlist = None
    /\ position = 0
    /\ rest = <<>>
    /\ result = "none"
    /\ log = <<Line("info", "Obtaining the access token", <<>>, 0),
               Line("info", "Found {} local tracks", <<>>, m + n)>>
             \o [i \in 1..m |-> Line("warn", "'{}' not found in the Spotify library",
                                      FullQuery, 0)]
             \o <<Line("info", "Found {} tracks in the Spotify library", <<>>, n)>>
    /\ requests = <<DoneReq("auth", <<>>)>>
                  \o [i \in 1..(m + n) |-> DoneReq("search", FullQuery)]

InitImport == \E m \in 0..MaxMiss, n \in 0..MaxLen : ImportState(m, n)

----------------------------------------------------------------------------
(* auth *)

(* spotify.get_authorize_url(false).unwrap() panics *)
AuthorizeUrlFail ==
    /\ pc = "start"
    /\ pc' = "panicked"
    /\ UNCHANGED <<library, tags, queries, qi, search_result, track_ids, playlist, position, rest,
                   result, log, requests>>

(* info!("Obtaining the access token"); spotify.prompt_for_token(&url).await *)
AuthIssue ==
    /\ pc = "start"
    /\ log' = Append(log, Line("info", "Obtaining the access token", <<>>, 0))
    /\ requests' = Issue(Req("auth", <<>>, <<>>, -1))
    /\ pc' = "auth_wait"
    /\ UNCHANGED <<library, tags, queries, qi, search_result, track_ids, playlist, position, rest, result>>

AuthOk ==
    /\ pc = "auth_wait"
    /\ requests' = Complete("ok")
    /\ pc' = "collect"
    /\ UNCHANGED <<library, tags, queries, qi, search_result, track_ids, playlist, position, rest,
                   result, log>>

(* .unwrap() on the failed token request panics *)
AuthFail ==
    /\ pc = "auth_wait"
    /\ requests' = Complete("failed")
    /\ pc' = "panicked"
    /\ UNCHANGED <<library, tags, queries, qi, search_result, track_ids, playlist, position, rest,
                   result, log>>

----------------------------------------------------------------------------
(* main, lines 48-55 *)

collect_track_tags ==
    /\ pc = "collect"
    /\ tags' = library
    /\ log' = Append(log, Line("info", "Found {} local tracks", <<>>, Len(library)))
    /\ pc' = "build"
    /\ UNCHANGED <<library, queries, qi, search_result, track_ids, playlist, position, rest,
                   result, requests>>

BuildQueries ==
    /\ pc = "build"
    /\ queries' = filter_map_try_from(tags)
    /\ track_ids' = <<>>
    /\ qi' = 1
    /\ pc' = "search_loop"
    /\ UNCHANGED <<library, tags, search_result, playlist, position, rest, result, log, requests>>

----------------------------------------------------------------------------
(* get_track_ids *)

(* mutant: the search is not awaited *)
SearchIssueNoWait ==
    /\ pc = "search_loop"
    /\ qi <= Len(queries)
    /\ requests' = Issue(Req("search", queries[qi], <<>>, -1))
    /\ qi' = qi + 1
    /\ UNCHANGED <<pc, library, tags, queries, search_result, track_ids, playlist,
                   position, rest, result, log>>

SearchIssue ==
    /\ pc = "search_loop"
    /\ qi <= Len(queries)
    /\ requests' = Issue(Req("search", queries[qi], <<>>, -1))
    /\ pc' = "search_wait"
    /\ UNCHANGED <<library, tags, queries, qi, search_result, track_ids, playlist, position, rest,
                   result, log>>

(* the reply arrives: let result = ... .await *)
SearchComplete ==
    /\ pc = "search_wait"
    /\ \E res \in SearchResults :
        /\ requests' = Complete(IF res.tag = "Err" THEN "failed" ELSE "ok")
        /\ search_result' = res
    /\ pc' = "search_match"
    /\ UNCHANGED <<library, tags, queries, qi, track_ids, playlist, position, rest,
                   result, log>>

(* track_ids.push(id); continue *)
MatchHit ==
    /\ pc = "search_match"
    /\ IsSome(first_track_id(search_result))
    /\ track_ids' = Append(track_ids, Unwrap(first_track_id(search_result)))
    /\ qi' = qi + 1
    /\ pc' = "search_loop"
    /\ UNCHANGED <<library, tags, queries, search_result, playlist, position, rest,
                   result, log, requests>>

(* mutant: a miss is dropped without a warning *)
MatchMissSilent ==
    /\ pc = "search_match"
    /\ ~IsSome(first_track_id(search_result))
    /\ qi' = qi + 1
    /\ pc' = "search_loop"
    /\ UNCHANGED <<library, tags, queries, search_result, track_ids, playlist, position,
                   rest, result, log, requests>>

(* warn!("'{}' not found in the Spotify library", query.0) *)
MatchMiss ==
    /\ pc = "search_match"
    /\ ~IsSome(first_track_id(search_result))
    /\ log' = Append(log, Line("warn", "'{}' not found in the Spotify library",
                               queries[qi], 0))
    /\ qi' = qi + 1
    /\ pc' = "search_loop"
    /\ UNCHANGED <<library, tags, queries, search_result, track_ids, playlist, position,
                   rest, result, requests>>

(* the for loop is over: return track_ids; main logs the count *)
get_track_ids_return ==
    /\ pc = "search_loop"
    /\ qi > Len(queries)
    /\ log' = Append(log, Line("info", "Found {} tracks in the Spotify library",
                               <<>>, Len(track_ids)))
    /\ pc' = "current_user"
    /\ UNCHANGED <<library, tags, queries, qi, search_result, track_ids, playlist, position, rest,
                   result, requests>>

----------------------------------------------------------------------------
(* add_tracks_to_spotify *)

CurrentUserIssue ==
    /\ pc = "current_user"
    /\ requests' = Issue(Req("current_user", <<>>, <<>>, -1))
    /\ pc' = "current_user_wait"
    /\ UNCHANGED <<library, tags, queries, qi, search_result, track_ids, playlist, position, rest,
                   result, log>>

CurrentUserOk ==
    /\ pc = "current_user_wait"
    /\ requests' = Complete("ok")
    /\ pc' = "create"
    /\ UNCHANGED <<library, tags, queries, qi, search_result, track_ids, playlist, position, rest,
                   result, log>>

(* mutant: the failure is returned with ? instead of panicking *)
CurrentUserFailReturned ==
    /\ pc = "current_user_wait"
    /\ requests' = Complete("failed")
    /\ result' = "Err"
    /\ pc' = "report"
    /\ UNCHANGED <<library, tags, queries, qi, search_result, track_ids, playlist,
                   position, rest, log>>

(* .expect("") panics *)
CurrentUserFail ==
    /\ pc = "current_user_wait"
    /\ requests' = Complete("failed")
    /\ pc' = "panicked"
    /\ UNCHANGED <<library, tags, queries, qi, search_result, track_ids, playlist, position, rest,
                   result, log>>

CreateIssue ==
    /\ pc = "create"
    /\ requests' = Issue(Req("create_playlist", <<>>, <<>>, -1))
    /\ pc' = "create_wait"
    /\ UNCHANGED <<library, tags, queries, qi, search_result, track_ids, playlist, position, rest,
                   result, log>>

(* let playlist = ...?; let mut position = 0; track_ids.chunks(100) *)
CreateOk ==
    /\ pc = "create_wait"
    /\ requests' = Complete("ok")
    /\ playlist' = Some(PlaylistId)
    /\ position' = 0
    /\ rest' = track_ids
    /\ pc' = "add_loop"
    /\ UNCHANGED <<library, tags, queries, qi, search_result, track_ids, result, log>>

(* mutant: the failure of the creation is ignored *)
CreateFailIgnored ==
    /\ pc = "create_wait"
    /\ requests' = Complete("failed")
    /\ position' = 0
    /\ rest' = track_ids
    /\ pc' = "add_loop"
    /\ UNCHANGED <<library, tags, queries, qi, search_result, track_ids, playlist,
                   result, log>>

(* .await? returns the error *)
CreateFail ==
    /\ pc = "create_wait"
    /\ requests' = Complete("failed")
    /\ result' = "Err"
    /\ pc' = "report"
    /\ UNCHANGED <<library, tags, queries, qi, search_result, track_ids, playlist, position, rest, log>>

(* mutant: the loop body runs once before the chunks are tested *)
AddIssueAtLeastOnce ==
    /\ pc = "add_loop"
    /\ rest # <<>> \/ position = 0
    /\ requests' = Issue(Req("add_items", <<>>, next_chunk(rest), position))
    /\ rest' = after_chunk(rest)
    /\ pc' = "add_wait"
    /\ UNCHANGED <<library, tags, queries, qi, search_result, track_ids, playlist,
                   position, result, log>>

AddIssue ==
    /\ pc = "add_loop"
    /\ rest # <<>>
    /\ requests' = Issue(Req("add_items", <<>>, next_chunk(rest), position))
    /\ rest' = after_chunk(rest)
    /\ pc' = "add_wait"
    /\ UNCHANGED <<library, tags, queries, qi, search_result, track_ids, playlist, position, result, log>>

AddOk ==
    /\ pc = "add_wait"
    /\ requests' = Complete("ok")
    /\ position' = position + PositionStep
    /\ log' = Append(log, Line("debug", "Imported 100 tracks at position {}",
                               <<>>, position + PositionStep))
    /\ pc' = "add_loop"
    /\ UNCHANGED <<library, tags, queries, qi, search_result, track_ids, playlist, rest, result>>

(* mutant: a failed chunk is skipped and the loop goes on *)
AddFailSkipped ==
    /\ pc = "add_wait"
    /\ requests' = Complete("failed")
    /\ pc' = "add_loop"
    /\ UNCHANGED <<library, tags, queries, qi, search_result, track_ids, playlist,
                   position, rest, result, log>>

(* .await? returns the error *)
AddFail ==
    /\ pc = "add_wait"
    /\ requests' = Complete("failed")
    /\ result' = "Err"
    /\ pc' = "report"
    /\ UNCHANGED <<library, tags, queries, qi, search_result, track_ids, playlist, position, rest, log>>

(* the for loop is over: Ok(()) *)
AddReturnOk ==
    /\ pc = "add_loop"
    /\ rest = <<>>
    /\ result' = "Ok"
    /\ pc' = "report"
    /\ UNCHANGED <<library, tags, queries, qi, search_result, track_ids, playlist, position, rest,
                   log, requests>>

----------------------------------------------------------------------------
(* main, lines 59-62 *)

Report ==
    /\ pc = "report"
    /\ log' = Append(log,
                IF result = "Ok"
                THEN Line("info", "Successfully imported {} tracks", <<>>, Len(track_ids))
                ELSE Line("error", "Failed to import tracks", <<>>, 0))
    /\ pc' = "done"
    /\ UNCHANGED <<library, tags, queries, qi, search_result, track_ids, playlist, position, rest,
                   result, requests>>

----------------------------------------------------------------------------

NextImport ==
    \/ CurrentUserIssue
    \/ CurrentUserOk
    \/ CurrentUserFail
    \/ CreateIssue
    \/ CreateOk
    \/ CreateFail
    \/ AddIssue
    \/ AddOk
    \/ AddFail
    \/ AddReturnOk
    \/ Report

Next ==
    \/ AuthorizeUrlFail
    \/ AuthIssue
    \/ AuthOk
    \/ AuthFail
    \/ collect_track_tags
    \/ BuildQueries
    \/ SearchIssue
    \/ SearchComplete
    \/ MatchHit
    \/ MatchMiss
    \/ get_track_ids_return
    \/ CurrentUserIssue
    \/ CurrentUserOk
    \/ CurrentUserFail
    \/ CreateIssue
    \/ CreateOk
    \/ CreateFail
    \/ AddIssue
    \/ AddOk
    \/ AddFail
    \/ AddReturnOk
    \/ Report

Spec == Init /\ [][Next]_vars

(* add_tracks_to_spotify and the report of main, on long track lists *)
SpecImport == InitImport /\ [][NextImport]_vars

(* whole runs, from the start on small libraries and from the import on long lists *)
InitRun == Init \/ InitImport

SpecRun == InitRun /\ [][Next]_vars

----------------------------------------------------------------------------
(* Vocabulary of the properties *)

IsAdd(r) == r.kind = "add_items"
IsSearch(r) == r.kind = "search"
IsWarn(l) == l.level = "warn"

AddRequests == SelectSeq(requests, IsAdd)
SearchRequests == SelectSeq(requests, IsSearch)
Warnings == SelectSeq(log, IsWarn)

Count(kind) == Cardinality({i \in 1..Len(requests) : requests[i].kind = kind})
Failed(kind) == \E i \in 1..Len(requests) :
                    requests[i].kind = kind /\ requests[i].status = "failed"
Succeeded(kind) == \E i \in 1..Len(requests) :
                       requests[i].kind = kind /\ requests[i].status = "ok"

MissWarning(q) == Line("warn", "'{}' not found in the Spotify library", q, 0)
FailureLine == Line("error", "Failed to import tracks", <<>>, 0)
SuccessLine(n) == Line("info", "Successfully imported {} tracks", <<>>, n)

LastLine(l) == log # <<>> /\ log[Len(log)] = l
Logged(l) == \E i \in 1..Len(log) : log[i] = l

RECURSIVE ItemsCarried(_, _)
ItemsCarried(adds, k) ==
    IF k = 0 THEN 0 ELSE Len(adds[k].items) + ItemsCarried(adds, k - 1)

----------------------------------------------------------------------------
(* C1: once the queries are built they are exactly the tags that have both a
   title and an artist, in the order of the tags, each as title, " - ",
   artist; a tag that lacks either gives no query, and building the queries
   writes no log line and ends nothing. *)
Kept == {i \in 1..Len(tags) : tags[i].title # None /\ tags[i].artist # None}

C1_QueryBuilder ==
    /\ pc # "build" =>
        /\ Len(queries) = Cardinality(Kept)
        /\ \A i \in Kept :
             queries[Cardinality({j \in Kept : j <= i})]
               = tags[i].title[1] \o <<" ", "-", " ">> \o tags[i].artist[1]
    /\ (pc = "search_loop" /\ qi = 1) =>
        /\ Len(log) = 2
        /\ \A i \in 1..Len(log) : log[i].level = "info"

C1_Witness ==
    /\ pc = "search_loop"
    /\ Len(tags) = 2
    /\ tags[1].artist = None
    /\ tags[2].title # None /\ tags[2].artist # None
    /\ Len(queries) = 1

(* C2: the k-th add-items request (k = 0, 1, ...) carries the items
   [100k, min(100k + 100, L)) of the resolved list in order at position
   100k, which is the number of items all earlier requests carried; every
   chunk but the last has 100 items; and when everything succeeded there are
   exactly ceil(L / 100) requests. *)
C2_Batching ==
    LET adds == AddRequests
        L == Len(track_ids)
    IN /\ \A k \in 0..(Len(adds) - 1) :
            LET lo == 100 * k
                hi == IF 100 * k + 100 <= L THEN 100 * k + 100 ELSE L
            IN /\ hi > lo
               /\ adds[k + 1].items = [j \in 1..(hi - lo) |-> track_ids[lo + j]]
               /\ adds[k + 1].position = 100 * k
               /\ adds[k + 1].position = ItemsCarried(adds, k)
               /\ (k + 1 < Len(adds) => Len(adds[k + 1].items) = 100)
       /\ result = "Ok" =>
            /\ Len(adds) = (L + 99) \div 100
            /\ \A k \in 1..Len(adds) : adds[k].status = "ok"

C2_Witness ==
    /\ pc = "done"
    /\ result = "Ok"
    /\ Len(library) = 150
    /\ Len(track_ids) = 148
    /\ Len(Warnings) = 2
    /\ Len(AddRequests) = 2
    /\ Len(AddRequests[2].items) = 48
    /\ AddRequests[2].position = 100

(* C3: a failed add-items request is the last request of the run, makes
   add_tracks_to_spotify return the failure, which main reports; no chunk is
   requested twice; a failure of the second request after a successful first
   leaves exactly two add-items requests. *)
C3_AddFailureAborts ==
    LET adds == AddRequests
    IN /\ \A i \in 1..Len(requests) :
            (IsAdd(requests[i]) /\ requests[i].status = "failed") =>
                /\ i = Len(requests)
                /\ result = "Err"
                /\ pc \in {"report", "done"}
                /\ (pc = "done" => LastLine(FailureLine))
       /\ \A i \in 1..Len(adds) : \A j \in (i + 1)..Len(adds) :
            /\ adds[i].position # adds[j].position
            /\ adds[i].items # adds[j].items
       /\ (Len(adds) >= 2 /\ adds[1].status = "ok" /\ adds[2].status = "failed")
            => Len(adds) = 2

C3_Witness ==
    /\ pc = "done"
    /\ Len(track_ids) > 200
    /\ Len(AddRequests) = 2
    /\ AddRequests[1].status = "ok"
    /\ AddRequests[2].status = "failed"
    /\ rest # <<>>

(* C4: when the reply to a search is a failure or an empty page, the step
   that handles it logs one warning with the text of that query, leaves the
   resolved list alone, issues no request and moves on to the next query;
   and the searches issued are one per query handled, with the queries'
   texts in order. *)
MissReply(r) == r.tag = "Err" \/ (r.tag = "Tracks" /\ r.items = <<>>)

OneSearchPerQuery ==
    /\ Len(SearchRequests) =
         (IF pc \in {"search_wait", "search_match"} THEN qi
          ELSE IF pc = "search_loop" THEN qi - 1
          ELSE Len(queries))
    /\ \A i \in 1..Len(SearchRequests) : SearchRequests[i].text = queries[i]

C4_MissPolicy ==
    /\ [][(pc = "search_match" /\ MissReply(search_result)) =>
            /\ log' = Append(log, MissWarning(queries[qi]))
            /\ track_ids' = track_ids
            /\ requests' = requests
            /\ qi' = qi + 1
            /\ pc' = "search_loop"]_vars
    /\ []OneSearchPerQuery

C4_Witness ==
    /\ pc = "current_user"
    /\ Len(queries) = 2
    /\ search_result.tag = "Err"
    /\ SearchRequests[1].status = "ok"
    /\ SearchRequests[2].status = "failed"
    /\ Len(SearchRequests) = 2
    /\ Len(Warnings) = 2
    /\ track_ids = <<>>

(* C5: the resolved list changes only when a reply is handled; a reply
   whose first item carries an id appends exactly that id and logs nothing,
   any other reply appends nothing; so the list is in query order, and its
   length plus the number of warnings is the number of queries handled, all
   of them once the loop is over. *)
C5_ResolvedOrder ==
    /\ [][pc = "search_match" =>
            IF /\ search_result.tag = "Tracks"
               /\ Len(search_result.items) >= 1
               /\ search_result.items[1] # None
            THEN /\ track_ids' = Append(track_ids, search_result.items[1][1])
                 /\ log' = log
            ELSE track_ids' = track_ids]_vars
    /\ [][track_ids' # track_ids => pc = "search_match"]_vars
    /\ [](Len(track_ids) + Len(Warnings) = qi - 1)
    /\ [](pc \in {"current_user", "current_user_wait", "create", "create_wait",
                  "add_loop", "add_wait", "report", "done"}
            => Len(track_ids) + Len(Warnings) = Len(queries))

C5_Witness ==
    /\ pc = "current_user"
    /\ Len(queries) = 2
    /\ Len(Warnings) = 1
    /\ track_ids = <<2>>
    /\ search_result.items = <<Some(2), Some(1)>>

(* C6: a run that resolves no track issues no add-items request; when it
   ends it has fetched the current user once and requested one playlist,
   and if both succeeded it reports success. *)
C6_EmptyImport ==
    /\ track_ids = <<>> => Count("add_items") = 0
    /\ (pc = "done" /\ track_ids = <<>>) =>
        /\ Count("current_user") = 1
        /\ Count("create_playlist") = 1
        /\ (Succeeded("current_user") /\ Succeeded("create_playlist")) =>
             /\ result = "Ok"
             /\ LastLine(SuccessLine(0))

C6_Witness ==
    /\ pc = "done"
    /\ library = <<>>
    /\ result = "Ok"
    /\ Count("create_playlist") = 1
    /\ Count("add_items") = 0

(* C7 as claimed: every run ended by a fatal failure (of the authentication,
   of the current user, of the creation of the playlist or of an add-items
   request) ends with the generic failure line as its last log line. *)
C7_UniformFailure ==
    ((pc = "panicked") \/ (pc = "done" /\ result = "Err")) => LastLine(FailureLine)

(* C7 as amended: a failed creation of the playlist or add-items request
   ends the run with the generic failure line; a failed authentication or
   current-user request ends it by a panic, with neither the failure line
   nor a success line logged. *)
C7_FailureOutcomes ==
    /\ (Failed("create_playlist") \/ Failed("add_items")) =>
        /\ result = "Err"
        /\ pc \in {"report", "done"}
        /\ (pc = "done" => LastLine(FailureLine))
    /\ (Failed("auth") \/ Failed("current_user")) =>
        /\ pc = "panicked"
        /\ result = "none"
    /\ pc = "panicked" =>
        /\ ~Logged(FailureLine)
        /\ \A i \in 1..Len(log) : log[i].fmt # "Successfully imported {} tracks"
        /\ requests # <<>> =>
             /\ requests[Len(requests)].status = "failed"
             /\ requests[Len(requests)].kind \in {"auth", "current_user"}

C7_Witness ==
    /\ pc = "panicked"
    /\ Failed("current_user")
    /\ track_ids # <<>>

(* C8: after a failed authentication no other request is ever issued; after
   a failed current-user request no playlist is requested; after a failed
   creation of the playlist no add-items request is issued and the run ends
   with the failure line. *)
C8_EarlyFailuresStop ==
    /\ (Failed("auth") \/ (pc = "panicked" /\ Count("auth") = 0)) =>
        /\ Count("search") = 0
        /\ Count("current_user") = 0
        /\ Count("create_playlist") = 0
        /\ Count("add_items") = 0
    /\ Failed("current_user") =>
        /\ Count("create_playlist") = 0
        /\ Count("add_items") = 0
    /\ Failed("create_playlist") =>
        /\ Count("add_items") = 0
        /\ pc \in {"report", "done"}
        /\ result = "Err"
        /\ (pc = "done" => LastLine(FailureLine))

C8_Witness ==
    /\ pc = "done"
    /\ Failed("create_playlist")
    /\ track_ids # <<>>

(* C9: only the last request can be pending; the requests come in the order
   authentication, searches, current user, creation, add-items, with at most
   one authentication, current-user and creation request; the searches carry
   the queries in order; the add-items requests come at increasing
   positions; an add-items request follows a successful creation or
   add-items request; and the creation is requested only after one search
   per query has completed. *)
Rank(kind) ==
    CASE kind = "auth" -> 0
      [] kind = "search" -> 1
      [] kind = "current_user" -> 2
      [] kind = "create_playlist" -> 3
      [] kind = "add_items" -> 4

C9_Sequencing ==
    /\ \A i \in 1..(Len(requests) - 1) : requests[i].status # "pending"
    /\ \A i \in 1..(Len(requests) - 1) :
         Rank(requests[i].kind) <= Rank(requests[i + 1].kind)
    /\ requests # <<>> => requests[1].kind = "auth"
    /\ Count("auth") <= 1
    /\ Count("current_user") <= 1
    /\ Count("create_playlist") <= 1
    /\ \A i \in 1..Len(SearchRequests) : SearchRequests[i].text = queries[i]
    /\ \A i \in 1..(Len(AddRequests) - 1) :
         AddRequests[i].position < AddRequests[i + 1].position
    /\ \A i \in 1..Len(AddRequests) :
         AddRequests[i].items[1] = track_ids[AddRequests[i].position + 1]
    /\ \A i \in 1..Len(requests) :
         IsAdd(requests[i]) =>
            /\ i > 1
            /\ requests[i - 1].kind \in {"create_playlist", "add_items"}
            /\ requests[i - 1].status = "ok"
    /\ \A i \in 1..Len(requests) :
         requests[i].kind \in {"current_user", "create_playlist"} =>
            /\ Len(SearchRequests) = Len(queries)
            /\ \A j \in 1..(i - 1) : requests[j].status \in {"ok", "failed"}
    /\ \A i \in 1..Len(requests) :
         requests[i].kind = "create_playlist" =>
            /\ i > 1
            /\ requests[i - 1].kind = "current_user"
            /\ requests[i - 1].status = "ok"

C9_Witness ==
    /\ pc = "done"
    /\ result = "Ok"
    /\ Len(SearchRequests) >= 2
    /\ Len(AddRequests) = 3

(* C10: a reply that is not a page of tracks, or whose first item carries
   no id, is handled as a miss: the warning for the query is logged, the
   resolved list is left alone whatever the later items of the page carry,
   and the loop moves on to the next query. *)
C10_FirstItemOnly ==
    [][(/\ pc = "search_match"
        /\ \/ search_result.tag = "Other"
           \/ /\ search_result.tag = "Tracks"
              /\ search_result.items # <<>>
              /\ search_result.items[1] = None) =>
          /\ log' = Append(log, MissWarning(queries[qi]))
          /\ track_ids' = track_ids
          /\ requests' = requests
          /\ qi' = qi + 1
          /\ pc' = "search_loop"]_vars

C10_Witness ==
    /\ pc = "search_loop"
    /\ qi = 2
    /\ search_result = [tag |-> "Tracks", items |-> <<None, Some(1)>>]
    /\ track_ids = <<>>
    /\ LastLine(MissWarning(queries[1]))

=============================================================================
